---- MODULE Spec2Model ----
(***************************************************************************)
(* Model of datasets/bib_to_tfrecords.py: the conversion of a Pascal-VOC   *)
(* style dataset split (JPEG images plus XML annotations) into one         *)
(* TFRecord file.                                                          *)
(*                                                                         *)
(* Python sequences are 0-based, TLA+ sequences 1-based: IMAGE_SHAPE[0] of *)
(* the source is IMAGE_SHAPE[1] here, b[0] is b[1], and so on.             *)
(*                                                                         *)
(* File names and identifiers are sequences of tokens (single characters,  *)
(* and the letter groups "xml", "jpg", "v2" standing for runs of non-dot,  *)
(* non-dash characters), so that split('.') and split('-') are computed.   *)
(***************************************************************************)
EXTENDS Integers, Sequences, FiniteSets, TLC

VARIABLES
    dataset,      \* run()'s `dataset` argument (the split)
    dirExists,    \* whether <dataset_dir>/Annotations/<dataset> exists
    dirListing,   \* what os.listdir returns for it, in the order it returns it
    xmlFiles,     \* annotation path (file name in that directory) -> content
    images,       \* the image paths that exist under <dataset_dir>/JPEGImages
    outDirExists, \* whether output_dir exists
    out,          \* the output file <output_dir>/<name>_<dataset>.tfrecord
    pc,           \* where run() is: idle, loop, done, aborted, skipped
    filenames,    \* run()'s local `filenames`
    i,            \* number of loop iterations of run() completed
    writerOpen,   \* whether the TFRecordWriter holds the output file open
    error,        \* the exception that ended the last run, or "none"
    runs,         \* number of calls of run() so far
    stdout,       \* what has been printed
    loaded,       \* result of a direct call of _process_image
    example       \* result of a direct call of _convert_to_example

vars == <<dataset, dirExists, dirListing, xmlFiles, images, outDirExists, out,
          pc, filenames, i, writerOpen, error, runs, stdout, loaded, example>>

driverVars == <<dataset, dirExists, dirListing, outDirExists, out, pc,
                filenames, i, writerOpen, error, runs, stdout>>

-----------------------------------------------------------------------------
\* Bounds of the model.

\* Most `object` elements in one annotation.
MaxObjects == 2
\* Most files in the annotation directory.
MaxFiles == 2
\* Most calls of run() in one behaviour.
MaxRuns == 2

-----------------------------------------------------------------------------
\* Program constants.

IMAGE_SHAPE == <<500, 500, 3>>
DIRECTORY_ANNOTATIONS == "Annotations/"
DIRECTORY_IMAGES == "JPEGImages/"

\* datasets.bib_common.BIB_LABELS: label name -> (id, category).
BIB_LABELS == [n \in {"none", "bib"} |->
                 IF n = "none" THEN <<0, "Background">> ELSE <<1, "Bib">>]

-----------------------------------------------------------------------------
\* Python values.

\* The text of an XML element holding a number: a decimal literal or "nan",
\* both of which float() accepts.
Num(n) == [kind |-> "dec", n |-> n]
NanText == [kind |-> "nan", n |-> 0]

\* A Python float: a number or NaN.
NaN == [nan |-> TRUE, v |-> 0]
Number(n) == [nan |-> FALSE, v |-> n]

\* float(text)
PyFloat(text) == IF text.kind = "nan" THEN NaN ELSE Number(text.n)

\* int(text), for a decimal literal
PyInt(text) == text.n

\* a < b: every comparison with NaN is false
PyLt(a, b) == ~a.nan /\ ~b.nan /\ a.v < b.v

\* min(a, b): the first argument unless the second compares smaller
PyMin(a, b) == IF PyLt(b, a) THEN b ELSE a

\* max(a, b): the first argument unless the second compares greater
PyMax(a, b) == IF PyLt(a, b) THEN b ELSE a

\* a / d: the quotient kept exact as numerator and denominator.  (Where both
\* operands are Python ints, the clamped value is 0 or d, and floor division
\* and true division agree.)
PyDiv(a, d) == [nan |-> a.nan, num |-> a.v, den |-> d]

\* fn.split(sep)[0]: the tokens before the first sep
RECURSIVE SplitFirst(_, _)
SplitFirst(s, sep) ==
    IF s = <<>> \/ Head(s) = sep THEN <<>>
    ELSE <<Head(s)>> \o SplitFirst(Tail(s), sep)

-----------------------------------------------------------------------------
\* XML elements.

\* obj.find(tag) for an optional child: None, or an element with a text and
\* some number of child elements of its own.
Absent == [present |-> FALSE, text |-> Num(0), children |-> 0]
Elem(t, k) == [present |-> TRUE, text |-> t, children |-> k]

\* The truth value of obj.find(tag) as `if` tests it: None is false, and an
\* Element is true exactly when it has child elements.
Truthy(el) == el.present /\ el.children > 0

\* Lines 100-103 and 104-107: the flag appended for an optional child.
FlagOf(el) == IF Truthy(el) THEN PyInt(el.text) ELSE 0

\* Clamp without the lower bound: min(float(text), dim)
ClampNoFloor(text, dim) == PyMin(PyFloat(text), Number(dim))

\* Lines 110-113: max(min(float(text), dim), 0)
Clamp(text, dim) == PyMax(PyMin(PyFloat(text), Number(dim)), Number(0))

\* Lines 114-115: the test that guards print(name), made on the clamped values.
Warns(ymax, xmax) == PyLt(Number(500), ymax) \/ PyLt(Number(500), xmax)

\* Lines 116-120: the tuple appended to bboxes.
BBoxOf(ymin, xmin, ymax, xmax) ==
    << PyDiv(ymin, IMAGE_SHAPE[1]), PyDiv(xmin, IMAGE_SHAPE[2]),
       PyDiv(ymax, IMAGE_SHAPE[1]), PyDiv(xmax, IMAGE_SHAPE[2]) >>

-----------------------------------------------------------------------------
\* Paths.

\* Lines 78-81: the image path; the training split keeps its images in one
\* sub-directory per prefix (the identifier up to its first '-').
ImagePath(name, ds) ==
    IF ds = "training"
    THEN <<DIRECTORY_IMAGES, ds, SplitFirst(name, "-"), name \o <<".", "jpg">> >>
    ELSE <<DIRECTORY_IMAGES, ds, name \o <<".", "jpg">> >>

\* Line 85: the annotation's file name inside Annotations/<dataset>.
XmlPath(name) == name \o <<".", "xml">>

-----------------------------------------------------------------------------
\* _process_image

\* What _process_image has accumulated: lines 90-94, plus the image bytes
\* (named by the path they were read from), what it printed, and the
\* exception that ended it.
NoResult ==
    [error |-> "none", image_data |-> <<>>, bboxes |-> <<>>, labels |-> <<>>,
     labels_text |-> <<>>, difficult |-> <<>>, truncated |-> <<>>,
     printed |-> <<>>]

\* Lines 95-120: the loop over root.findall('object').
RECURSIVE ProcessObjects(_, _, _)
ProcessObjects(objs, name, acc) ==
    IF objs = <<>> THEN acc
    ELSE
      LET obj == Head(objs)
          label == obj.name
      IN  IF label \notin DOMAIN BIB_LABELS
          THEN [acc EXCEPT !.error = "KeyError"]
          ELSE
            LET ymin == Clamp(obj.bndbox.ymin, IMAGE_SHAPE[1])
                xmin == Clamp(obj.bndbox.xmin, IMAGE_SHAPE[2])
                ymax == Clamp(obj.bndbox.ymax, IMAGE_SHAPE[1])
                xmax == Clamp(obj.bndbox.xmax, IMAGE_SHAPE[2])
            IN  ProcessObjects(Tail(objs), name,
                  [acc EXCEPT
                     !.labels = Append(@, BIB_LABELS[label][1]),
                     !.labels_text = Append(@, label),
                     !.difficult = Append(@, FlagOf(obj.difficult)),
                     !.truncated = Append(@, FlagOf(obj.truncated)),
                     !.printed = IF Warns(ymax, xmax)
                                 THEN Append(@, [msg |-> "name", name |-> name])
                                 ELSE @,
                     !.bboxes = Append(@, BBoxOf(ymin, xmin, ymax, xmax))])

\* Lines 66-121.
_process_image(name, ds) ==
    LET img == ImagePath(name, ds)
        xml == XmlPath(name)
    IN  IF img \notin images
        THEN [NoResult EXCEPT !.error = "NotFoundError"]
        ELSE IF xml \notin DOMAIN xmlFiles
        THEN [NoResult EXCEPT !.error = "IOError", !.image_data = img]
        ELSE IF ~xmlFiles[xml].wellformed
        THEN [NoResult EXCEPT !.error = "ParseError", !.image_data = img]
        ELSE ProcessObjects(xmlFiles[xml].objects, name,
                            [NoResult EXCEPT !.image_data = img])

-----------------------------------------------------------------------------
\* _convert_to_example

\* Transpose zipping only the lists [xmin, ymin, xmax] with each box.
RECURSIVE TransposeShort(_, _)
TransposeShort(bboxes, lists) ==
    IF bboxes = <<>> THEN lists
    ELSE LET b == Head(bboxes)
         IN  TransposeShort(Tail(bboxes),
                            [k \in 1..4 |-> IF k <= 3
                                            THEN Append(lists[k], b[k])
                                            ELSE lists[k]])

\* Lines 142-145: each box's points are appended, in order, to the lists
\* [xmin, ymin, xmax, ymax]; zip stops at the shorter of the two.
RECURSIVE Transpose(_, _)
Transpose(bboxes, lists) ==
    IF bboxes = <<>> THEN lists
    ELSE LET b == Head(bboxes)
         IN  Transpose(Tail(bboxes),
                       [k \in 1..4 |-> IF k <= Len(b)
                                       THEN Append(lists[k], b[k])
                                       ELSE lists[k]])

NoExample ==
    [height |-> <<>>, width |-> <<>>, channels |-> <<>>, shape |-> <<>>,
     bbox_xmin |-> <<>>, bbox_xmax |-> <<>>, bbox_ymin |-> <<>>,
     bbox_ymax |-> <<>>, bbox_label |-> <<>>, bbox_label_text |-> <<>>,
     bbox_difficult |-> <<>>, bbox_truncated |-> <<>>,
     format |-> "", encoded |-> <<>>]

\* Lines 124-164.  The lists are local: xmin, ymin, xmax, ymax are
\* lists[1..4].
_convert_to_example(image_data, labels, labels_text, bboxes, difficult, truncated) ==
    IF \E k \in 1..Len(bboxes) : Len(bboxes[k]) # 4
    THEN [error |-> "AssertionError", example |-> NoExample]
    ELSE
      LET lists == Transpose(bboxes, <<<<>>, <<>>, <<>>, <<>>>>)
          xmin == lists[1]
          ymin == lists[2]
          xmax == lists[3]
          ymax == lists[4]
      IN  [error |-> "none",
           example |->
             [height |-> <<IMAGE_SHAPE[1]>>,
              width |-> <<IMAGE_SHAPE[2]>>,
              channels |-> <<IMAGE_SHAPE[3]>>,
              shape |-> IMAGE_SHAPE,
              bbox_xmin |-> xmin,
              bbox_xmax |-> xmax,
              bbox_ymin |-> ymin,
              bbox_ymax |-> ymax,
              bbox_label |-> labels,
              bbox_label_text |-> labels_text,
              bbox_difficult |-> difficult,
              bbox_truncated |-> truncated,
              format |-> "JPEG",
              encoded |-> image_data]]

\* _add_to_tfrecord writing the new record before the earlier ones.
_add_to_tfrecord_first(name, ds, records) ==
    LET l == _process_image(name, ds)
        c == _convert_to_example(l.image_data, l.labels, l.labels_text,
                                 l.bboxes, l.difficult, l.truncated)
    IN  IF l.error # "none"
        THEN [error |-> l.error, records |-> records, printed |-> l.printed]
        ELSE IF c.error # "none"
        THEN [error |-> c.error, records |-> records, printed |-> l.printed]
        ELSE [error |-> "none", records |-> <<c.example>> \o records,
              printed |-> l.printed]

\* Lines 167-179: what one call does to the writer's records, what it
\* printed, and the exception that ended it.
_add_to_tfrecord(name, ds, records) ==
    LET l == _process_image(name, ds)
        c == _convert_to_example(l.image_data, l.labels, l.labels_text,
                                 l.bboxes, l.difficult, l.truncated)
    IN  IF l.error # "none"
        THEN [error |-> l.error, records |-> records, printed |-> l.printed]
        ELSE IF c.error # "none"
        THEN [error |-> c.error, records |-> records, printed |-> l.printed]
        ELSE [error |-> "none", records |-> Append(records, c.example),
              printed |-> l.printed]

-----------------------------------------------------------------------------
\* The inputs: what the file system holds.

Splits == {"training", "validation"}

\* File names an annotation directory may hold.
FileNames ==
    { <<"a", "-", "1", ".", "xml">>,
      <<"b", ".", "xml">>,
      <<"b", ".", "v2", ".", "xml">>,
      <<"c", ".", "v2", ".", "xml">> }

Range(s) == {s[k] : k \in 1..Len(s)}

\* Directory listings: up to MaxFiles distinct names, in any order.
Listings ==
    UNION { { s \in [1..n -> FileNames] :
                \A j, k \in 1..n : j # k => s[j] # s[k] } : n \in 0..MaxFiles }

\* An `object` element.
Box(x0, y0, x1, y1) == [xmin |-> x0, ymin |-> y0, xmax |-> x1, ymax |-> y1]
Object(n, d, t, box) == [name |-> n, difficult |-> d, truncated |-> t, bndbox |-> box]
BaseBox == Box(Num(10), Num(20), Num(300), Num(450))

\* Annotation contents of the driver's runs.
SampleObject == Object("bib", Absent, Absent, BaseBox)
UnknownObject == Object("dog", Absent, Absent, BaseBox)
Malformed == [wellformed |-> FALSE, objects |-> <<>>]
Xml(objs) == [wellformed |-> TRUE, objects |-> objs]
Contents ==
    { Malformed, Xml(<<>>), Xml(<<SampleObject>>),
      Xml(<<SampleObject, UnknownObject>>) }

\* A record some earlier program left in the output file.
StaleRecord == [NoExample EXCEPT !.format = "JPEG"]
NoFile == [exists |-> FALSE, records |-> <<>>]
File(records) == [exists |-> TRUE, records |-> records]

\* Line 202: the identifiers a listing yields.
Identifiers(listing) == [k \in 1..Len(listing) |-> SplitFirst(listing[k], ".")]

\* The annotation files a run can come to parse: those some identifier of
\* the listing names and whose image exists (the image is read first).
Parsed(listing, imgs, ds) ==
    { f \in Range(listing) :
        \E k \in 1..Len(listing) :
           /\ XmlPath(Identifiers(listing)[k]) = f
           /\ ImagePath(Identifiers(listing)[k], ds) \in imgs }

NotCalled == [called |-> FALSE, result |-> NoResult]
ExampleNotCalled ==
    [called |-> FALSE, result |-> [error |-> "none", example |-> NoExample]]

\* The state before the first call of run().  The content of an annotation
\* file no run can come to parse is left at Malformed.
Init ==
    /\ dataset \in Splits
    /\ dirExists \in BOOLEAN
    /\ dirListing \in Listings
    /\ ~dirExists => dirListing = <<>>
    /\ images \in SUBSET {ImagePath(Identifiers(dirListing)[k], dataset) :
                            k \in 1..Len(dirListing)}
    /\ xmlFiles \in [Range(dirListing) -> Contents]
    /\ \A f \in Range(dirListing) :
          f \notin Parsed(dirListing, images, dataset) => xmlFiles[f] = Malformed
    /\ out \in {NoFile, File(<<>>), File(<<StaleRecord>>)}
    /\ outDirExists \in BOOLEAN
    /\ out.exists => outDirExists
    /\ pc = "idle"
    /\ filenames = <<>>
    /\ i = 0
    /\ writerOpen = FALSE
    /\ error = "none"
    /\ runs = 0
    /\ stdout = <<>>
    /\ loaded = NotCalled
    /\ example = ExampleNotCalled

-----------------------------------------------------------------------------
\* run()

Returned == {"idle", "done", "aborted", "skipped"}

CanCall == pc \in Returned /\ runs < MaxRuns

\* RunSkip with the writer opened before the existence test: the file is
\* created anew.
RunSkipTruncating ==
    /\ CanCall
    /\ out.exists
    /\ pc' = "skipped"
    /\ runs' = runs + 1
    /\ outDirExists' = TRUE
    /\ filenames' = <<>>
    /\ i' = 0
    /\ error' = "none"
    /\ out' = File(<<>>)
    /\ stdout' = Append(stdout, [msg |-> "exists"])
    /\ UNCHANGED <<dataset, dirExists, dirListing, xmlFiles, images,
                   writerOpen, loaded, example>>

\* Lines 193-199: the output file exists; run() says so and returns.
RunSkip ==
    /\ CanCall
    /\ out.exists
    /\ pc' = "skipped"
    /\ runs' = runs + 1
    /\ outDirExists' = TRUE
    /\ filenames' = <<>>
    /\ i' = 0
    /\ error' = "none"
    /\ stdout' = Append(stdout, [msg |-> "exists"])
    /\ UNCHANGED <<dataset, dirExists, dirListing, xmlFiles, images, out,
                   writerOpen, loaded, example>>

\* Lines 193-202: no output file, and os.listdir raises.
RunListFail ==
    /\ CanCall
    /\ ~out.exists
    /\ ~dirExists
    /\ pc' = "aborted"
    /\ runs' = runs + 1
    /\ outDirExists' = TRUE
    /\ filenames' = <<>>
    /\ i' = 0
    /\ error' = "OSError"
    /\ UNCHANGED <<dataset, dirExists, dirListing, xmlFiles, images, out,
                   writerOpen, stdout, loaded, example>>

\* Lines 193-206: no output file; the identifiers are listed and the writer
\* is opened, which creates the file.
RunOpen ==
    /\ CanCall
    /\ ~out.exists
    /\ dirExists
    /\ pc' = "loop"
    /\ runs' = runs + 1
    /\ outDirExists' = TRUE
    /\ filenames' = Identifiers(dirListing)
    /\ i' = 0
    /\ error' = "none"
    /\ out' = File(<<>>)
    /\ writerOpen' = TRUE
    /\ UNCHANGED <<dataset, dirExists, dirListing, xmlFiles, images, stdout,
                   loaded, example>>

Progress(k, n) == [msg |-> "progress", k |-> k, n |-> n]

\* Lines 207-211: one iteration that returns.
AddOk ==
    /\ pc = "loop"
    /\ i < Len(filenames)
    /\ LET r == _add_to_tfrecord(filenames[i + 1], dataset, out.records)
       IN  /\ r.error = "none"
           /\ out' = File(r.records)
           /\ stdout' = Append(stdout, Progress(i + 1, Len(filenames))) \o r.printed
    /\ i' = i + 1
    /\ UNCHANGED <<dataset, dirExists, dirListing, xmlFiles, images,
                   outDirExists, pc, filenames, writerOpen, error, runs,
                   loaded, example>>

\* AddFail without the with statement: the exception leaves run() and the
\* writer stays open.
AddFailLeaking ==
    /\ pc = "loop"
    /\ i < Len(filenames)
    /\ LET r == _add_to_tfrecord(filenames[i + 1], dataset, out.records)
       IN  /\ r.error # "none"
           /\ out' = File(r.records)
           /\ error' = r.error
           /\ stdout' = Append(stdout, Progress(i + 1, Len(filenames))) \o r.printed
    /\ pc' = "aborted"
    /\ UNCHANGED <<dataset, dirExists, dirListing, xmlFiles, images,
                   outDirExists, filenames, i, runs, writerOpen, loaded, example>>

\* AddFail catching the exception and going on to the next identifier.
AddFailSkipping ==
    /\ pc = "loop"
    /\ i < Len(filenames)
    /\ LET r == _add_to_tfrecord(filenames[i + 1], dataset, out.records)
       IN  /\ r.error # "none"
           /\ out' = File(r.records)
           /\ stdout' = Append(stdout, Progress(i + 1, Len(filenames))) \o r.printed
    /\ i' = i + 1
    /\ UNCHANGED <<dataset, dirExists, dirListing, xmlFiles, images,
                   outDirExists, pc, filenames, runs, writerOpen, error,
                   loaded, example>>

\* Lines 206-211: one iteration that raises; the with statement closes the
\* writer and the exception leaves run().
AddFail ==
    /\ pc = "loop"
    /\ i < Len(filenames)
    /\ LET r == _add_to_tfrecord(filenames[i + 1], dataset, out.records)
       IN  /\ r.error # "none"
           /\ out' = File(r.records)
           /\ error' = r.error
           /\ stdout' = Append(stdout, Progress(i + 1, Len(filenames))) \o r.printed
    /\ writerOpen' = FALSE
    /\ pc' = "aborted"
    /\ UNCHANGED <<dataset, dirExists, dirListing, xmlFiles, images,
                   outDirExists, filenames, i, runs, loaded, example>>

\* Lines 206-216: the loop is over; the with statement closes the writer.
RunFinish ==
    /\ pc = "loop"
    /\ i = Len(filenames)
    /\ writerOpen' = FALSE
    /\ pc' = "done"
    /\ stdout' = Append(stdout, [msg |-> "finished"])
    /\ UNCHANGED <<dataset, dirExists, dirListing, xmlFiles, images,
                   outDirExists, out, filenames, i, error, runs, loaded,
                   example>>

Next ==
    \/ RunSkip
    \/ RunListFail
    \/ RunOpen
    \/ AddOk
    \/ AddFail
    \/ RunFinish

Spec == Init /\ [][Next]_vars

-----------------------------------------------------------------------------
\* _process_image and _convert_to_example called on one annotation, as
\* _add_to_tfrecord calls them, for every annotation of a bounded set.

\* Optional child elements: missing, or present with an integer text and
\* with or without child elements of their own.
FlagTexts == {Num(1), Num(2)}
ChildCounts == {0, 1}
FlagElems == {Absent} \cup {Elem(t, k) : t \in FlagTexts, k \in ChildCounts}

\* Raw coordinate texts: negative, in range, beyond the image, not a number.
RawTexts == {Num(-5), Num(10), Num(450), Num(600), NanText}

\* Boxes: each coordinate of BaseBox in turn takes every raw text; and the
\* box (xmin=10, ymin=10, xmax=600, ymax=450).
ExampleBox == Box(Num(10), Num(10), Num(600), Num(450))
Boxes ==
    {ExampleBox} \cup
    { [BaseBox EXCEPT ![c] = r] : c \in {"xmin", "ymin", "xmax", "ymax"}, r \in RawTexts }

FlagObjects == { Object("bib", d, t, BaseBox) : d \in FlagElems, t \in FlagElems }
BoxObjects == { Object("bib", Absent, Absent, b) : b \in Boxes }
ObjectSet == FlagObjects \cup BoxObjects \cup {UnknownObject}

Annotations == UNION { [1..n -> ObjectSet] : n \in 0..MaxObjects }

SampleName == <<"a", "-", "1">>

InitLoad ==
    /\ dataset = "training"
    /\ dirExists = TRUE
    /\ dirListing = <<XmlPath(SampleName)>>
    /\ images = {ImagePath(SampleName, dataset)}
    /\ \E objs \in Annotations : xmlFiles = [f \in {XmlPath(SampleName)} |-> Xml(objs)]
    /\ out = NoFile
    /\ outDirExists = FALSE
    /\ pc = "idle"
    /\ filenames = <<>>
    /\ i = 0
    /\ writerOpen = FALSE
    /\ error = "none"
    /\ runs = 0
    /\ stdout = <<>>
    /\ loaded = NotCalled
    /\ example = ExampleNotCalled

\* Lines 175-176.
ProcessImage ==
    /\ ~loaded.called
    /\ loaded' = [called |-> TRUE, result |-> _process_image(SampleName, dataset)]
    /\ UNCHANGED <<driverVars, xmlFiles, images, example>>

\* Lines 177-178.
ConvertToExample ==
    /\ loaded.called
    /\ loaded.result.error = "none"
    /\ ~example.called
    /\ LET l == loaded.result
       IN  example' =
             [called |-> TRUE,
              result |-> _convert_to_example(l.image_data, l.labels,
                            l.labels_text, l.bboxes, l.difficult, l.truncated)]
    /\ UNCHANGED <<driverVars, xmlFiles, images, loaded>>

NextLoad ==
    \/ ProcessImage
    \/ ConvertToExample

SpecLoad == InitLoad /\ [][NextLoad]_vars

-----------------------------------------------------------------------------
\* Properties of _process_image and _convert_to_example (under SpecLoad).

\* The `object` elements of the annotation that was processed.
TheObjects == xmlFiles[XmlPath(SampleName)].objects

Loaded == loaded.called /\ loaded.result.error = "none"
Encoded == example.called /\ example.result.error = "none"

\* The flag an optional child stands for: 0 when missing, else its integer.
ExpectedFlag(el) == IF el.present THEN el.text.n ELSE 0

\* C1: for every object, a missing difficult (truncated) child gives the
\* flag 0 and a present one with an integer text gives that integer.
C1_FlagsPassThrough ==
    Loaded =>
      \A k \in 1..Len(TheObjects) :
         /\ loaded.result.difficult[k] = ExpectedFlag(TheObjects[k].difficult)
         /\ loaded.result.truncated[k] = ExpectedFlag(TheObjects[k].truncated)

\* A raw coordinate clamped to [0, dim] and divided by dim.
Normalized(text, dim) == PyDiv(Clamp(text, dim), dim)

\* C2: in the record, bbox_xmin[k], bbox_ymin[k], bbox_xmax[k], bbox_ymax[k]
\* are the clamped and normalized xmin, ymin, xmax, ymax of the k-th object.
C2_CoordinatesInOwnField ==
    Encoded =>
      \A k \in 1..Len(TheObjects) :
         LET b == TheObjects[k].bndbox
             e == example.result.example
         IN  /\ e.bbox_xmin[k] = Normalized(b.xmin, IMAGE_SHAPE[2])
             /\ e.bbox_ymin[k] = Normalized(b.ymin, IMAGE_SHAPE[1])
             /\ e.bbox_xmax[k] = Normalized(b.xmax, IMAGE_SHAPE[2])
             /\ e.bbox_ymax[k] = Normalized(b.ymax, IMAGE_SHAPE[1])

\* The raw xmax or ymax of an object lies beyond the image.
BeyondImage(obj) ==
    \/ PyLt(Number(IMAGE_SHAPE[2]), PyFloat(obj.bndbox.xmax))
    \/ PyLt(Number(IMAGE_SHAPE[1]), PyFloat(obj.bndbox.ymax))

\* C3: for every object whose raw xmax or raw ymax exceeds the image's
\* width or height, the identifier is printed (once per such object).
C3_WarningForRawOverflow ==
    Loaded =>
      /\ Len(loaded.result.printed) >=
            Cardinality({k \in 1..Len(TheObjects) : BeyondImage(TheObjects[k])})
      /\ \A k \in 1..Len(loaded.result.printed) :
            loaded.result.printed[k].name = SampleName

InUnitInterval(q) == ~q.nan /\ 0 <= q.num /\ q.num <= q.den

\* C4 as stated: each of the four coordinates of every emitted box lies in
\* [0, 1], whatever the raw text was.
C4_AllInUnitInterval ==
    Loaded =>
      \A k \in 1..Len(TheObjects) : \A c \in 1..4 :
         InUnitInterval(loaded.result.bboxes[k][c])

\* The quotient a number n gives: n brought into [0, dim], over dim.
ClampedQuotient(n, dim) ==
    [nan |-> FALSE, num |-> IF n < 0 THEN 0 ELSE IF n > dim THEN dim ELSE n,
     den |-> dim]

CoordinateOk(text, q, dim) ==
    IF text.kind = "nan" THEN q.nan
    ELSE q = ClampedQuotient(text.n, dim) /\ InUnitInterval(q)

\* C4 amended: every raw coordinate that float() reads as a number gives the
\* number clamped to [0, dimension] over the dimension (height for y, width
\* for x), which lies in [0, 1]; a raw text of "nan" gives NaN.
C4_NumbersInUnitInterval ==
    Loaded =>
      \A k \in 1..Len(TheObjects) :
         LET b == TheObjects[k].bndbox
             t == loaded.result.bboxes[k]
         IN  /\ CoordinateOk(b.ymin, t[1], IMAGE_SHAPE[1])
             /\ CoordinateOk(b.xmin, t[2], IMAGE_SHAPE[2])
             /\ CoordinateOk(b.ymax, t[3], IMAGE_SHAPE[1])
             /\ CoordinateOk(b.xmax, t[4], IMAGE_SHAPE[2])

\* Two objects are processed: a raw ymax of 600 emitted as 1.0 and a raw
\* xmin of -5 emitted as 0.
C4_Witness ==
    /\ Loaded
    /\ Len(TheObjects) = 2
    /\ TheObjects[1].bndbox.ymax = Num(600)
    /\ loaded.result.bboxes[1][3] = [nan |-> FALSE, num |-> 500, den |-> 500]
    /\ TheObjects[2].bndbox.xmin = Num(-5)
    /\ loaded.result.bboxes[2][2] = [nan |-> FALSE, num |-> 0, den |-> 500]

\* C5: the record's eight per-object sequences all have length N, the
\* number of object elements of the annotation.
C5_ParallelLengths ==
    Encoded =>
      LET e == example.result.example
          n == Len(TheObjects)
      IN  /\ Len(e.bbox_xmin) = n
          /\ Len(e.bbox_xmax) = n
          /\ Len(e.bbox_ymin) = n
          /\ Len(e.bbox_ymax) = n
          /\ Len(e.bbox_label) = n
          /\ Len(e.bbox_label_text) = n
          /\ Len(e.bbox_difficult) = n
          /\ Len(e.bbox_truncated) = n

\* An annotation of two objects has been encoded.
C5_Witness ==
    /\ Encoded
    /\ Len(TheObjects) = 2
    /\ Len(example.result.example.bbox_ymax) = 2
    /\ Len(example.result.example.bbox_truncated) = 2

-----------------------------------------------------------------------------
\* Properties of run() (under Spec).

\* The record _add_to_tfrecord writes for an identifier that loads.
RecordOf(name) ==
    LET l == _process_image(name, dataset)
    IN  _convert_to_example(l.image_data, l.labels, l.labels_text, l.bboxes,
                            l.difficult, l.truncated).example

\* The exception an identifier raises in _add_to_tfrecord, or "none".
FailureOf(name) == _process_image(name, dataset).error

\* C6: a call of run() that finds the output file returns without error,
\* enumerates and writes nothing, and leaves the file as it was.
C6_ExistingFileUntouched ==
    [][(pc \in Returned /\ out.exists) =>
          /\ out' = out
          /\ pc' = "skipped"
          /\ error' = "none"
          /\ filenames' = <<>>
          /\ i' = 0
          /\ ~writerOpen']_vars

\* A call has been skipped over a file that held a record, and the record
\* is still all the file holds.
C6_Witness ==
    /\ pc = "skipped"
    /\ runs >= 1
    /\ out = File(<<StaleRecord>>)

\* C7: in the run that creates the file, after k iterations the file holds
\* the records of the first k identifiers of the listing, in its order; a
\* completed run has gone through all of them.
C7_RecordsInEnumerationOrder ==
    (pc \in {"loop", "done"}) =>
       /\ filenames = Identifiers(dirListing)
       /\ i <= Len(filenames)
       /\ Len(out.records) = i
       /\ \A k \in 1..i : out.records[k] = RecordOf(filenames[k])
       /\ pc = "done" => i = Len(filenames)

\* A run over two identifiers has completed with two different records.
C7_Witness ==
    /\ pc = "done"
    /\ Len(filenames) = 2
    /\ Len(out.records) = 2
    /\ out.records[1] # out.records[2]

\* C8: the writer is open only inside the loop of run(); when run() has
\* returned or raised, it is closed.
C8_WriterClosedOnExit ==
    /\ pc \in Returned => ~writerOpen
    /\ pc = "loop" => writerOpen

\* A run was aborted by its second identifier, and the writer is closed.
C8_Witness ==
    /\ pc = "aborted"
    /\ error \in {"NotFoundError", "IOError", "ParseError", "KeyError"}
    /\ i = 1
    /\ out.exists
    /\ ~writerOpen

\* fn without its final '.ext' (all of fn when it has no '.').
RECURSIVE StripExtension(_)
StripExtension(fn) ==
    IF fn = <<>> THEN <<>>
    ELSE IF fn[Len(fn)] = "." THEN SubSeq(fn, 1, Len(fn) - 1)
    ELSE IF \A k \in 1..Len(fn) : fn[k] # "." THEN fn
    ELSE StripExtension(SubSeq(fn, 1, Len(fn) - 1))

\* C9: the k-th identifier is the k-th listed file name without its final
\* extension; distinct files give distinct identifiers; <identifier>.xml is
\* the file the identifier came from.
C9_ExtensionStripped ==
    pc = "loop" =>
       /\ Len(filenames) = Len(dirListing)
       /\ \A k \in 1..Len(filenames) :
             /\ filenames[k] = StripExtension(dirListing[k])
             /\ XmlPath(filenames[k]) = dirListing[k]
       /\ \A j, k \in 1..Len(filenames) : j # k => filenames[j] # filenames[k]

\* C10 as stated: whatever failure aborted the run, it left an output file
\* holding the records of the identifiers before the failing one, so that
\* the next call is skipped.
C10_AnyFailureLeavesPartialFile ==
    pc = "aborted" =>
       /\ out.exists
       /\ Len(out.records) = i
       /\ \A k \in 1..i : out.records[k] = RecordOf(filenames[k])

\* The state after a failure while an identifier is processed.
C10_AbortedInLoop ==
    (pc = "aborted" /\ error # "OSError") =>
       /\ out.exists
       /\ ~writerOpen
       /\ i < Len(filenames)
       /\ FailureOf(filenames[i + 1]) = error
       /\ Len(out.records) = i
       /\ \A k \in 1..i : out.records[k] = RecordOf(filenames[k])

\* No identifier is skipped: the loop is past only identifiers that loaded.
C10_NoSkipping ==
    (pc \in {"loop", "done", "aborted"}) =>
       \A k \in 1..i : FailureOf(filenames[k]) = "none"

\* The state after a failure of the directory listing.
C10_AbortedListing ==
    (pc = "aborted" /\ error = "OSError") =>
       /\ ~out.exists
       /\ filenames = <<>>
       /\ ~writerOpen

\* C10 amended: a failure while an identifier is processed aborts the run at
\* that identifier, with no retry and no skipping, and leaves an output file
\* with exactly the records of the identifiers before it; every later call
\* is skipped and adds nothing.  A failure of the directory listing aborts
\* the run before the file is created and leaves no file.
C10_FirstFailureAborts ==
    /\ [](C10_AbortedInLoop /\ C10_NoSkipping /\ C10_AbortedListing)
    /\ [][(pc = "aborted" /\ out.exists) =>
             (pc' = "skipped" /\ out' = out)]_vars
    /\ [][(pc = "skipped" /\ out.exists) =>
             (pc' = "skipped" /\ out' = out)]_vars

\* The second identifier failed after the first was written, and the call
\* that followed was skipped.
C10_Witness ==
    /\ pc = "skipped"
    /\ runs = 2
    /\ error = "none"
    /\ filenames = <<>>
    /\ Len(dirListing) = 2
    /\ FailureOf(Identifiers(dirListing)[1]) = "none"
    /\ FailureOf(Identifiers(dirListing)[2]) # "none"
    /\ out = File(<<RecordOf(Identifiers(dirListing)[1])>>)

====
